---------------------------- MODULE Spec2Model ----------------------------
(***************************************************************************)
(* azindex: inventory of the virtual machines of an Azure tenant and the   *)
(* end-of-life status of their OS images.                                  *)
(*                                                                         *)
(* Two state machines share this module (FairSpec is Spec under a fair     *)
(* scheduler):                                                             *)
(*   Spec      the pipeline of main.rs: the spawned enumeration task       *)
(*             (subscription pages, VM pages, the sender mutex, the        *)
(*             bounded channel) and the main task (calendar fetches, the   *)
(*             drain loop of write_to_csv / write_to_excel);               *)
(*   PureSpec  single calls of the pure functions of eol_detection/*.rs    *)
(*             and of the family dispatch of the two sinks, on inputs      *)
(*             drawn from bounded sets.                                    *)
(*                                                                         *)
(* A Rust String is a sequence of one-character strings; Option<T> is the  *)
(* empty sequence (None) or a one-element sequence (Some(x)); a NaiveDate  *)
(* is a record [y, m, d].                                                  *)
(***************************************************************************)
EXTENDS Integers, Sequences, FiniteSets, Bags, TLC

VARIABLES
    run,            \* the run under way: an index into Runs, which gives the --format
                    \* argument as typed and what the cloud listing returns
    today,          \* chrono::Utc::now().date_naive()
    main_pc,        \* where the main task is
    format,         \* args.format: "EXCEL", "CSV" or "UNKNOWN" once parsed
    exited,         \* the process has ended (the runtime is shut down)
    exit_code,      \* its exit status
    ubuntu_eol,     \* what each list().await returned: None until it does, then
                    \* Some(Ok(calendar)) or Some(Err)
    centos_eol,
    windows_eol,
    redhat_eol,
    chan,           \* the records buffered in the mpsc channel
    tx_dropped,     \* the Sender is dropped: end of stream for the consumer
    rx_dropped,     \* the Receiver is dropped: every send fails
    producer,       \* the spawned task: "unspawned", "running", "finished"
    subNext,        \* the next page the subscription stream yields
    tasks,          \* per subscription page: its processing task and its VM page tasks
    mutex,          \* Mutex<Sender>: its holder (<<>> when free, else <<p, q>>, a VM
                    \* page task) and the tasks awaiting it, first come first served
    errlog,         \* the bag of diagnostics written by error!
    out,            \* the output file: [created, header, rows, closed]
    call            \* PureSpec: the last call made, its inputs and its result

(***************************************************************************)
(* Option<T>                                                               *)
(***************************************************************************)
None == <<>>

Some(x) == <<x>>

unwrap_or_default(o) == IF o = None THEN <<>> ELSE o[1]

(***************************************************************************)
(* Strings                                                                 *)
(***************************************************************************)
UpperChars == <<"A","B","C","D","E","F","G","H","I","J","K","L","M",
                "N","O","P","Q","R","S","T","U","V","W","X","Y","Z">>

LowerChars == <<"a","b","c","d","e","f","g","h","i","j","k","l","m",
                "n","o","p","q","r","s","t","u","v","w","x","y","z">>

LowerOf ==
    [c \in {UpperChars[i] : i \in 1..Len(UpperChars)} |->
        LowerChars[CHOOSE i \in 1..Len(UpperChars) : UpperChars[i] = c]]

LowerChar(c) == IF c \in DOMAIN LowerOf THEN LowerOf[c] ELSE c

to_lowercase(s) == [i \in 1..Len(s) |-> LowerChar(s[i])]

contains(s, pat) ==
    \E i \in 0..(Len(s) - Len(pat)) : \A k \in 1..Len(pat) : s[i + k] = pat[k]

\* str::split on a one-character separator: always at least one part
RECURSIVE split(_, _)
split(s, sep) ==
    IF \A i \in 1..Len(s) : s[i] # sep
    THEN <<s>>
    ELSE LET k == CHOOSE i \in 1..Len(s) :
                      s[i] = sep /\ \A j \in 1..(i - 1) : s[j] # sep
         IN  <<SubSeq(s, 1, k - 1)>> \o split(SubSeq(s, k + 1, Len(s)), sep)

S_ubuntu == <<"u","b","u","n","t","u">>
S_centos == <<"c","e","n","t","o","s">>
S_windows == <<"w","i","n","d","o","w","s">>
S_rhel == <<"r","h","e","l">>
S_EOL == <<"E","O","L">>
S_Supported == <<"S","u","p","p","o","r","t","e","d">>
S_Ending == <<"E","n","d","i","n","g"," ">>
S_dashes == <<"-","-">>
S_empty == <<>>

(***************************************************************************)
(* chrono::NaiveDate                                                       *)
(***************************************************************************)
Date(y, m, d) == [y |-> y, m |-> m, d |-> d]

\* (variant: a date is also before itself)
DateLE(a, b) ==
    \/ a.y < b.y
    \/ a.y = b.y /\ a.m < b.m
    \/ a.y = b.y /\ a.m = b.m /\ a.d <= b.d

DateLT(a, b) ==
    \/ a.y < b.y
    \/ a.y = b.y /\ a.m < b.m
    \/ a.y = b.y /\ a.m = b.m /\ a.d < b.d

DateGT(a, b) == DateLT(b, a)

IsLeap(y) == (y % 4 = 0 /\ y % 100 # 0) \/ y % 400 = 0

DaysInMonth(y, m) ==
    IF m = 2 THEN (IF IsLeap(y) THEN 29 ELSE 28)
    ELSE IF m \in {4, 6, 9, 11} THEN 30 ELSE 31

\* checked_add_months: the day is clamped to the length of the new month
checked_add_months(date, months) ==
    LET year  == date.y + (months \div 12)
        month == date.m + (months % 12)
        y2    == IF month > 12 THEN year + 1 ELSE year
        m2    == IF month > 12 THEN month - 12 ELSE month
        dmax  == DaysInMonth(y2, m2)
    IN  Date(y2, m2, IF date.d > dmax THEN dmax ELSE date.d)

DigitChars == <<"0","1","2","3","4","5","6","7","8","9">>

Digit(n) == DigitChars[(n % 10) + 1]

\* Display of NaiveDate: YYYY-MM-DD
FormatDate(date) ==
    << Digit(date.y \div 1000), Digit(date.y \div 100), Digit(date.y \div 10),
       Digit(date.y), "-", Digit(date.m \div 10), Digit(date.m), "-",
       Digit(date.d \div 10), Digit(date.d) >>

\* EOLEntity: of its seven fields only cycle and eol are ever read
EOLEntity(cycle, eol) == [cycle |-> cycle, eol |-> eol]

(***************************************************************************)
(* eol_detection/ubuntu.rs                                                 *)
(***************************************************************************)
\* (variant: first.replace("_", "."), whatever the number of '_')
ubuntu_parse_replacing_all(az_version) ==
    LET first == split(az_version, "-")[1]
    IN  Some([i \in 1..Len(first) |-> IF first[i] = "_" THEN "." ELSE first[i]])

ubuntu_parse_azure_version(az_version) ==
    LET parts == split(az_version, "-")
    IN  IF Len(parts) = 0 THEN None
        ELSE LET first  == parts[1]
                 parts2 == split(first, "_")
             IN  IF Len(parts2) = 2
                 THEN Some(parts2[1] \o <<".">> \o parts2[2])
                 ELSE Some(first)

\* the loop over eol_list from entry i on
\* (variant: the cycle is compared without regard to case)
RECURSIVE ubuntu_scan_any_case(_, _, _, _)
ubuntu_scan_any_case(eol_list, i, version, now) ==
    IF i > Len(eol_list) THEN S_dashes
    ELSE LET item == eol_list[i]
             same == to_lowercase(item.cycle) = to_lowercase(version)
         IN  IF same /\ DateLT(item.eol, now) THEN S_EOL
             ELSE IF same /\ DateGT(item.eol, now) THEN S_Supported
             ELSE ubuntu_scan_any_case(eol_list, i + 1, version, now)

RECURSIVE ubuntu_scan(_, _, _, _)
ubuntu_scan(eol_list, i, version, now) ==
    IF i > Len(eol_list) THEN S_dashes
    ELSE LET item == eol_list[i]
         IN  IF item.cycle = version /\ DateLT(item.eol, now) THEN S_EOL
             ELSE IF item.cycle = version /\ DateGT(item.eol, now) THEN S_Supported
             ELSE ubuntu_scan(eol_list, i + 1, version, now)

ubuntu_is_outdated(vm, eol_list, now) ==
    LET parsed == ubuntu_parse_azure_version(vm.sku)
    IN  IF parsed = None THEN S_dashes
        ELSE ubuntu_scan(eol_list, 1, parsed[1], now)

(***************************************************************************)
(* eol_detection/centos.rs                                                 *)
(***************************************************************************)
centos_parse_azure_version(az_version) ==
    LET parts == split(az_version, ".")
    IN  IF Len(parts) < 2
        THEN LET parts2 == split(az_version, "-")
             IN  IF Len(parts2) = 0 THEN None ELSE Some(parts2[1])
        ELSE Some(parts[1])

\* (variant: no look-ahead, every entry not yet past its end of life is
\* supported)
RECURSIVE centos_scan_without_lookahead(_, _, _, _)
centos_scan_without_lookahead(eol_list, i, version, now) ==
    IF i > Len(eol_list) THEN S_dashes
    ELSE LET item == eol_list[i]
         IN  IF item.cycle = version /\ DateLT(item.eol, now) THEN S_EOL
             ELSE IF item.cycle = version /\ DateGT(item.eol, now) THEN S_Supported
             ELSE centos_scan_without_lookahead(eol_list, i + 1, version, now)

RECURSIVE centos_scan(_, _, _, _)
centos_scan(eol_list, i, version, now) ==
    IF i > Len(eol_list) THEN S_dashes
    ELSE LET item       == eol_list[i]
             future_eol == checked_add_months(now, 12)
         IN  IF item.cycle = version /\ DateLT(item.eol, now) THEN S_EOL
             ELSE IF item.cycle = version /\ DateGT(item.eol, now)
             THEN (IF DateLT(item.eol, future_eol)
                   THEN S_Ending \o FormatDate(item.eol)
                   ELSE S_Supported)
             ELSE centos_scan(eol_list, i + 1, version, now)

centos_is_outdated(vm, eol_list, now) ==
    LET parsed == centos_parse_azure_version(vm.sku)
    IN  IF parsed = None THEN S_dashes
        ELSE centos_scan(eol_list, 1, parsed[1], now)

(***************************************************************************)
(* eol_detection/redhat.rs                                                 *)
(***************************************************************************)
\* (variant: a SKU without '.' is returned whole)
redhat_parse_without_dash_split(az_version) ==
    LET parts == split(az_version, ".")
    IN  IF Len(parts) < 2 THEN Some(az_version) ELSE Some(parts[1])

redhat_parse_azure_version(az_version) ==
    LET parts == split(az_version, ".")
    IN  IF Len(parts) < 2
        THEN LET parts2 == split(az_version, "-")
             IN  IF Len(parts2) = 0 THEN None ELSE Some(parts2[1])
        ELSE Some(parts[1])

RECURSIVE redhat_scan(_, _, _, _)
redhat_scan(eol_list, i, version, now) ==
    IF i > Len(eol_list) THEN S_dashes
    ELSE LET item       == eol_list[i]
             future_eol == checked_add_months(now, 12)
         IN  IF item.cycle = version /\ DateLT(item.eol, now) THEN S_EOL
             ELSE IF item.cycle = version /\ DateGT(item.eol, now)
             THEN (IF DateLT(item.eol, future_eol)
                   THEN S_Ending \o FormatDate(item.eol)
                   ELSE S_Supported)
             ELSE redhat_scan(eol_list, i + 1, version, now)

redhat_is_outdated(vm, eol_list, now) ==
    LET parsed == redhat_parse_azure_version(vm.sku)
    IN  IF parsed = None THEN S_dashes
        ELSE redhat_scan(eol_list, 1, parsed[1], now)

(***************************************************************************)
(* eol_detection/windows.rs is not among the sources; section 4.3 and 4.4  *)
(* of the specification describe it: the parser mirrors the CentOS/RHEL    *)
(* one, the classifier compares the end-of-life date with today without a  *)
(* lookahead window.                                                       *)
(***************************************************************************)
windows_parse_azure_version(az_version) ==
    LET parts == split(az_version, ".")
    IN  IF Len(parts) < 2
        THEN LET parts2 == split(az_version, "-")
             IN  IF Len(parts2) = 0 THEN None ELSE Some(parts2[1])
        ELSE Some(parts[1])

RECURSIVE windows_scan(_, _, _, _)
windows_scan(eol_list, i, version, now) ==
    IF i > Len(eol_list) THEN S_dashes
    ELSE LET item == eol_list[i]
         IN  IF item.cycle = version /\ DateLT(item.eol, now) THEN S_EOL
             ELSE IF item.cycle = version /\ DateGT(item.eol, now) THEN S_Supported
             ELSE windows_scan(eol_list, i + 1, version, now)

windows_is_outdated(vm, eol_list, now) ==
    LET parsed == windows_parse_azure_version(vm.sku)
    IN  IF parsed = None THEN S_dashes
        ELSE windows_scan(eol_list, 1, parsed[1], now)

(***************************************************************************)
(* main.rs: the family dispatch of the two sinks (version_info)            *)
(***************************************************************************)
\* write_to_excel, lines 196-216
excel_version_info(vm, ubuntu_cal, centos_cal, windows_cal, redhat_cal, now) ==
    IF contains(to_lowercase(vm.offer), S_ubuntu)
    THEN << unwrap_or_default(ubuntu_parse_azure_version(vm.sku)),
            ubuntu_is_outdated(vm, ubuntu_cal, now) >>
    ELSE IF contains(to_lowercase(vm.offer), S_centos)
    THEN << unwrap_or_default(centos_parse_azure_version(vm.sku)),
            centos_is_outdated(vm, centos_cal, now) >>
    ELSE IF contains(to_lowercase(vm.offer), S_windows)
    THEN << unwrap_or_default(windows_parse_azure_version(vm.sku)),
            windows_is_outdated(vm, windows_cal, now) >>
    ELSE IF contains(to_lowercase(vm.offer), S_rhel)
    THEN << unwrap_or_default(redhat_parse_azure_version(vm.sku)),
            redhat_is_outdated(vm, redhat_cal, now) >>
    ELSE << S_empty, S_dashes >>

\* write_to_csv, lines 264-280: no rhel branch, no redhat calendar
csv_version_info(vm, ubuntu_cal, centos_cal, windows_cal, now) ==
    IF contains(to_lowercase(vm.offer), S_ubuntu)
    THEN << unwrap_or_default(ubuntu_parse_azure_version(vm.sku)),
            ubuntu_is_outdated(vm, ubuntu_cal, now) >>
    ELSE IF contains(to_lowercase(vm.offer), S_centos)
    THEN << unwrap_or_default(centos_parse_azure_version(vm.sku)),
            centos_is_outdated(vm, centos_cal, now) >>
    ELSE IF contains(to_lowercase(vm.offer), S_windows)
    THEN << unwrap_or_default(windows_parse_azure_version(vm.sku)),
            windows_is_outdated(vm, windows_cal, now) >>
    ELSE << S_empty, S_dashes >>

(***************************************************************************)
(* main.rs: program constants                                              *)
(***************************************************************************)
\* mpsc::channel::<VMResult>(32)
Capacity == 32

\* subs.for_each_concurrent(10, ...)
SubConcurrency == 10

\* vms.for_each_concurrent(10, ...)
VmConcurrency == 10

\* impl From<String> for OutputType
S_excel == <<"e","x","c","e","l">>
S_csv == <<"c","s","v">>

\* (variant: the format is compared as typed)
OutputTypeFromExactCase(other) ==
    IF other = S_excel THEN "EXCEL"
    ELSE IF other = S_csv THEN "CSV"
    ELSE "UNKNOWN"

OutputTypeFrom(other) ==
    IF to_lowercase(other) = S_excel THEN "EXCEL"
    ELSE IF to_lowercase(other) = S_csv THEN "CSV"
    ELSE "UNKNOWN"

(***************************************************************************)
(* What the cloud listing returns.  A page is Ok(value) or Err; a          *)
(* subscription and a VM carry the optional fields the code reads.         *)
(***************************************************************************)
OkPage(value) == [ok |-> TRUE, value |-> value]

ErrPage == [ok |-> FALSE, value |-> <<>>]

Subscription(id) == [subscription_id |-> id]

OsLinux == <<"L","i","n","u","x">>
OsWindows == <<"W","i","n","d","o","w","s">>

ImageReference(publisher, offer, sku) ==
    [ sku |-> Some(sku), publisher |-> Some(publisher), offer |-> Some(offer),
      version |-> Some(<<"l","a","t","e","s","t">>), exact_version |-> None ]

OsDisk(os) == [os_type |-> Some(os)]

StorageProfile(image, disk) == [image_reference |-> image, os_disk |-> disk]

VirtualMachine(id, properties) == [id |-> id, properties |-> properties]

VmWith(id, image, disk) ==
    VirtualMachine(id, Some([storage_profile |-> Some(StorageProfile(image, disk))]))

\* decimal digits of n
RECURSIVE Num(_)
Num(n) == IF n < 10 THEN <<Digit(n)>> ELSE Num(n \div 10) \o <<Digit(n)>>

SubId(s) == <<"s">> \o Num(s)

VmId(s, n) == <<"v">> \o Num(s) \o <<".">> \o Num(n)

S_Canonical == <<"C","a","n","o","n","i","c","a","l">>
S_OpenLogic == <<"O","p","e","n","L","o","g","i","c">>
S_RedHat == <<"R","e","d","H","a","t">>
S_Microsoft == <<"M","i","c","r","o","s","o","f","t">>
S_UbuntuServer == <<"U","b","u","n","t","u","S","e","r","v","e","r">>
S_CentOS == <<"C","e","n","t","O","S">>
S_RHEL == <<"R","H","E","L">>
S_WindowsServer == <<"W","i","n","d","o","w","s","S","e","r","v","e","r">>
S_18_04_LTS == <<"1","8",".","0","4","-","L","T","S">>
S_20_04_gen2 == <<"2","0","_","0","4","-","l","t","s","-","g","e","n","2">>
S_7_LVM == <<"7","-","L","V","M">>
S_7_6 == <<"7",".","6">>
S_8_2 == <<"8","_","2">>
S_2019 == <<"2","0","1","9","-","D","a","t","a","c","e","n","t","e","r">>

\* the images the modelled tenants use, by turns
Images ==
    << ImageReference(S_Canonical, S_UbuntuServer, S_18_04_LTS),
       ImageReference(S_OpenLogic, S_CentOS, S_7_6),
       ImageReference(S_RedHat, S_RHEL, S_8_2),
       ImageReference(S_Microsoft, S_WindowsServer, S_2019) >>

ImageOf(n) == Images[(n % Len(Images)) + 1]

CompleteVm(s, n) == VmWith(Some(VmId(s, n)), Some(ImageOf(n)), Some(OsDisk(OsLinux)))

(***************************************************************************)
(* The tenants and command lines the pipeline is run on                    *)
(***************************************************************************)
NumSubs == 3

VmsPerSub == 11

Tenant(subs, vms) == [subs |-> subs, vms |-> vms]

VmList(sub_id, pages) == [sub_id |-> sub_id, pages |-> pages]

\* NumSubs subscriptions on one page, each with one page of VmsPerSub VMs
GridTenant ==
    Tenant( << OkPage([s \in 1..NumSubs |-> Subscription(Some(SubId(s)))]) >>,
            { VmList(SubId(s), << OkPage([n \in 1..VmsPerSub |-> CompleteVm(s, n)]) >>)
              : s \in 1..NumSubs } )

\* two subscription pages in flight together: one subscription overfills the
\* channel by itself, the other sends one record
ContendedTenant ==
    Tenant( << OkPage(<<Subscription(Some(SubId(1)))>>),
               OkPage(<<Subscription(Some(SubId(2)))>>) >>,
            { VmList(SubId(1), << OkPage([n \in 1..(Capacity + 1) |-> CompleteVm(1, n)]) >>),
              VmList(SubId(2), << OkPage(<<CompleteVm(2, 1)>>) >>) } )

\* failed pages and VM entries with missing fields
MixedTenant ==
    Tenant( << OkPage(<<Subscription(Some(SubId(1)))>>),
               ErrPage,
               OkPage(<<Subscription(Some(SubId(2)))>>) >>,
            { VmList(SubId(1),
                << OkPage(<< CompleteVm(1, 0),
                             VirtualMachine(Some(VmId(1, 1)), None),
                             VmWith(Some(VmId(1, 2)), None, Some(OsDisk(OsWindows))) >>),
                   ErrPage,
                   OkPage(<< VirtualMachine(Some(VmId(1, 3)),
                                            Some([storage_profile |-> None])),
                             CompleteVm(1, 5) >>) >>),
              VmList(SubId(2),
                << OkPage(<< VmWith(Some(VmId(2, 1)), Some(ImageOf(0)), None),
                             VmWith(Some(VmId(2, 2)), None, None),
                             CompleteVm(2, 2) >>) >>) } )

\* more subscription pages than may be in flight; every VM listing fails
ManySubPagesTenant ==
    Tenant( [p \in 1..(SubConcurrency + 1) |-> OkPage(<<Subscription(Some(SubId(p)))>>)],
            {} )

\* one subscription with more VM pages than may be in flight; the VMs carry
\* neither id nor image reference
ManyVmPagesTenant ==
    Tenant( << OkPage(<<Subscription(Some(SubId(1)))>>) >>,
            { VmList(SubId(1),
                [q \in 1..(VmConcurrency + 1) |->
                    OkPage(<<VmWith(None, None, Some(OsDisk(OsLinux)))>>)]) } )

S_Excel == <<"E","x","c","e","l">>
S_xml == <<"x","m","l">>

Run(t, f) == [tenant |-> t, args_format |-> f]

Runs ==
    << Run(GridTenant, S_csv), Run(GridTenant, S_Excel),
       Run(ContendedTenant, S_csv),
       Run(MixedTenant, S_csv), Run(MixedTenant, S_Excel), Run(MixedTenant, S_xml),
       Run(ManySubPagesTenant, S_Excel),
       Run(ManyVmPagesTenant, S_csv) >>

\* the inputs of the run under way
tenant == Runs[run].tenant

args_format == Runs[run].args_format

\* the calendars endoflife.date returns in the pipeline runs
Today == Date(2024, 3, 1)

UbuntuCalendar ==
    << EOLEntity(<<"2","0",".","0","4">>, Date(2025, 5, 31)),
       EOLEntity(<<"1","8",".","0","4">>, Date(2023, 5, 31)) >>

CentosCalendar ==
    << EOLEntity(<<"8">>, Date(2021, 12, 31)), EOLEntity(<<"7">>, Date(2024, 6, 30)) >>

RedhatCalendar ==
    << EOLEntity(<<"8">>, Date(2029, 5, 31)), EOLEntity(<<"7">>, Date(2028, 6, 30)) >>

WindowsCalendar ==
    << EOLEntity(<<"2","0","1","9">>, Date(2029, 1, 9)),
       EOLEntity(<<"7">>, Date(2020, 1, 14)) >>

(***************************************************************************)
(* main.rs: list_vms and the spawned task                                  *)
(***************************************************************************)
\* client.virtual_machines_client().list_all(subscription_id).into_stream():
\* a listing always yields a first result, an error for an unknown subscription
VmPagesIn(t, sub_id) ==
    IF \E l \in t.vms : l.sub_id = sub_id
    THEN (CHOOSE l \in t.vms : l.sub_id = sub_id).pages
    ELSE <<ErrPage>>

VmPagesOf(sub_id) == VmPagesIn(tenant, sub_id)

\* sub.subscription_id.unwrap_or_default() of the i-th subscription of page p
SubIdAt(p, i) == unwrap_or_default(tenant.subs[p].value[i].subscription_id)

\* the three matches of list_vms that `continue`: the diagnostic of a VM entry
\* that is skipped, or None for an entry that yields a record
S_NoProperties == "No properties found for: "
S_NoStorageProfile == "No storage profile found for: "
S_NoOsDisk == "No OS disk found for: "

SkipDiagnostic(vm) ==
    IF vm.properties = None
    THEN Some([msg |-> S_NoProperties, id |-> unwrap_or_default(vm.id)])
    ELSE IF vm.properties[1].storage_profile = None
    THEN Some([msg |-> S_NoStorageProfile, id |-> unwrap_or_default(vm.id)])
    ELSE IF vm.properties[1].storage_profile[1].os_disk = None
    THEN Some([msg |-> S_NoOsDisk, id |-> unwrap_or_default(vm.id)])
    ELSE None

\* (variant: the image fields of an entry without image reference are taken
\* to be those of a blank reference with a placeholder sku)
MakeVMResultPlaceholder(vm, subscription_id) ==
    LET storage_profile == vm.properties[1].storage_profile[1]
        r               == storage_profile.image_reference
    IN  [ id |-> unwrap_or_default(vm.id),
          subscription_id |-> subscription_id,
          publisher |-> IF r # None THEN unwrap_or_default(r[1].publisher) ELSE S_empty,
          offer |-> IF r # None THEN unwrap_or_default(r[1].offer) ELSE S_empty,
          sku |-> IF r # None THEN unwrap_or_default(r[1].sku) ELSE S_dashes,
          version |-> IF r # None THEN unwrap_or_default(r[1].version) ELSE S_empty,
          exact_version |-> IF r # None THEN unwrap_or_default(r[1].exact_version)
                            ELSE S_empty,
          os_type |-> storage_profile.os_disk[1].os_type ]

\* lines 129-156: the record built for a VM entry that is not skipped
MakeVMResult(vm, subscription_id) ==
    LET storage_profile == vm.properties[1].storage_profile[1]
        r               == storage_profile.image_reference
        image_info      ==
            IF r # None
            THEN << unwrap_or_default(r[1].sku), unwrap_or_default(r[1].publisher),
                    unwrap_or_default(r[1].offer), unwrap_or_default(r[1].version),
                    unwrap_or_default(r[1].exact_version) >>
            ELSE << S_empty, S_empty, S_empty, S_empty, S_empty >>
        os_disk         == storage_profile.os_disk[1]
    IN  [ id |-> unwrap_or_default(vm.id),
          subscription_id |-> subscription_id,
          publisher |-> image_info[2],
          offer |-> image_info[3],
          sku |-> image_info[1],
          version |-> image_info[4],
          exact_version |-> image_info[5],
          os_type |-> os_disk.os_type ]

\* `for vm in vms.value` from entry j on: the first entry that is not skipped
\* (Len + 1 when there is none)
RECURSIVE NextSent(_, _)
NextSent(value, j) ==
    IF j > Len(value) \/ SkipDiagnostic(value[j]) = None THEN j
    ELSE NextSent(value, j + 1)

\* the diagnostics of the entries j..k-1, all skipped
RECURSIVE SkippedLog(_, _, _)
SkippedLog(value, j, k) ==
    IF j >= k THEN EmptyBag
    ELSE SetToBag({SkipDiagnostic(value[j])[1]}) (+) SkippedLog(value, j + 1, k)

\* A subscription page task (the future of the closure of lines 78-86) is
\* "idle" until the stream yields its page, "run" while it is inside list_vms
\* for its i-th subscription, then "done".  Inside list_vms, vmNext is the
\* next page of the VM stream and vt[q] the task of VM page q (the future of
\* the closure of lines 112-161): "idle", then "lock" (awaiting tx.lock() for
\* entry j), "send" (holding the guard, awaiting tx.send for entry j), "done".
IdleTask == [pc |-> "idle", i |-> 0, vmNext |-> 0, vt |-> <<>>]

DoneTask == [pc |-> "done", i |-> 0, vmNext |-> 0, vt |-> <<>>]

IdleVm == [pc |-> "idle", j |-> 0]

DoneVm == [pc |-> "done", j |-> 0]

\* lines 79-84: the page future from its i-th subscription on; it ends at
\* once on an Err page and after the last subscription
RECURSIVE StartSub(_, _)
StartSub(p, i) ==
    IF ~tenant.subs[p].ok \/ i > Len(tenant.subs[p].value) THEN DoneTask
    ELSE LET n == Len(VmPagesOf(SubIdAt(p, i)))
         IN  IF n = 0 THEN StartSub(p, i + 1)
             ELSE [pc |-> "run", i |-> i, vmNext |-> 1, vt |-> [q \in 1..n |-> IdleVm]]

\* list_vms returns when its stream is exhausted and every page future is done
ListVmsDone(t) ==
    t.vmNext > Len(t.vt) /\ \A q \in 1..Len(t.vt) : t.vt[q].pc = "done"

Settle(p, t) ==
    IF t.pc = "run" /\ ListVmsDone(t) THEN StartSub(p, t.i + 1) ELSE t

\* the VM page future from entry j on: it runs to its next tx.lock().await
VmTaskFrom(value, j) ==
    IF NextSent(value, j) > Len(value) THEN DoneVm
    ELSE [pc |-> "lock", j |-> NextSent(value, j)]

\* tokio::sync::Mutex hands the lock out in the order it was asked for: a
\* task that reaches tx.lock().await joins the queue
Enqueue(mx, p, q, vtask) ==
    IF vtask.pc = "lock" THEN [mx EXCEPT !.waiters = Append(@, <<p, q>>)] ELSE mx

FreeMutex == [holder |-> <<>>, waiters |-> <<>>]

\* `if let Ok(..) = ..` has no else: a failed page leaves no diagnostic
PageErrorLog == EmptyBag

\* for_each_concurrent(10, ..) polls the stream only below its limit
\* (variant: for_each, no limit)
SubSlotAlwaysFree == TRUE

SubSlotFree ==
    Cardinality({p \in 1..Len(tasks) : tasks[p].pc = "run"}) < SubConcurrency

VmSlotFree(t) ==
    Cardinality({q \in 1..Len(t.vt) : t.vt[q].pc \in {"lock", "send"}}) < VmConcurrency

\* the async block of the spawned task ends, and drops tx, when the
\* subscription stream is exhausted and every page future is done
\* (variant: the sender dropped as soon as the stream is exhausted)
FinishedAtStreamEnd(tk, sn) == sn > Len(tenant.subs)

Finished(tk, sn) ==
    sn > Len(tenant.subs) /\ \A p \in 1..Len(tk) : tk[p].pc = "done"

\* tx.send(machine).await returns when the channel has room (Ok) or the
\* receiver is gone (Err, ignored by `_ =`)
\* (variant: a send that never waits)
SendNeverWaits == TRUE

SendReady == rx_dropped \/ Len(chan) < Capacity

\* (variant: a channel that keeps the latest record only)
SendKeepsLatest(machine) == IF rx_dropped THEN chan ELSE <<machine>>

SendEffect(machine) == IF rx_dropped THEN chan ELSE Append(chan, machine)

ProducerRuns == producer = "running" /\ ~exited

ProducerAfter ==
    /\ producer' = IF Finished(tasks', subNext') THEN "finished" ELSE "running"
    /\ tx_dropped' = Finished(tasks', subNext')

\* the subscription stream yields its next page
SubStreamNext ==
    /\ ProducerRuns
    /\ subNext <= Len(tenant.subs)
    /\ SubSlotFree
    /\ tasks' = [tasks EXCEPT ![subNext] = StartSub(subNext, 1)]
    /\ subNext' = subNext + 1
    /\ errlog' = errlog (+) (IF tenant.subs[subNext].ok THEN EmptyBag ELSE PageErrorLog)
    /\ ProducerAfter
    /\ UNCHANGED << run, today, main_pc, format, exited, exit_code,
                    ubuntu_eol, centos_eol, windows_eol, redhat_eol,
                    chan, rx_dropped, mutex, out, call >>

\* the VM stream of subscription page task p yields its next page
VmStreamNext(p) ==
    /\ ProducerRuns
    /\ tasks[p].pc = "run"
    /\ tasks[p].vmNext <= Len(tasks[p].vt)
    /\ VmSlotFree(tasks[p])
    /\ LET t    == tasks[p]
           q    == t.vmNext
           page == VmPagesOf(SubIdAt(p, t.i))[q]
           vtask == IF page.ok THEN VmTaskFrom(page.value, 1) ELSE DoneVm
           t1   == [t EXCEPT !.vmNext = q + 1, !.vt[q] = vtask]
       IN  /\ tasks' = [tasks EXCEPT ![p] = Settle(p, t1)]
           /\ mutex' = Enqueue(mutex, p, q, vtask)
           /\ errlog' = errlog (+)
                  (IF page.ok
                   THEN SkippedLog(page.value, 1, NextSent(page.value, 1))
                   ELSE PageErrorLog)
    /\ UNCHANGED subNext
    /\ ProducerAfter
    /\ UNCHANGED << run, today, main_pc, format, exited, exit_code,
                    ubuntu_eol, centos_eol, windows_eol, redhat_eol,
                    chan, rx_dropped, out, call >>

\* line 157: tx.lock().await returns the guard
Acquire(p, q) ==
    /\ ProducerRuns
    /\ tasks[p].pc = "run"
    /\ q <= Len(tasks[p].vt)
    /\ tasks[p].vt[q].pc = "lock"
    /\ mutex.holder = <<>>
    /\ mutex.waiters # <<>>
    /\ Head(mutex.waiters) = <<p, q>>
    /\ mutex' = [holder |-> <<p, q>>, waiters |-> Tail(mutex.waiters)]
    /\ tasks' = [tasks EXCEPT ![p].vt[q].pc = "send"]
    /\ UNCHANGED << run, today, main_pc, format, exited, exit_code,
                    ubuntu_eol, centos_eol, windows_eol, redhat_eol,
                    chan, tx_dropped, rx_dropped, producer, subNext, errlog, out, call >>

\* line 158: tx.send(machine).await returns; the guard is dropped at the end
\* of the loop body and the loop goes on to the next entry that is not skipped
Send(p, q) ==
    /\ ProducerRuns
    /\ tasks[p].pc = "run"
    /\ q <= Len(tasks[p].vt)
    /\ tasks[p].vt[q].pc = "send"
    /\ mutex.holder = <<p, q>>
    /\ SendReady
    /\ LET t     == tasks[p]
           j     == t.vt[q].j
           value == VmPagesOf(SubIdAt(p, t.i))[q].value
           vtask == VmTaskFrom(value, j + 1)
           t1    == [t EXCEPT !.vt[q] = vtask]
       IN  /\ chan' = SendEffect(MakeVMResult(value[j], SubIdAt(p, t.i)))
           /\ mutex' = Enqueue([mutex EXCEPT !.holder = <<>>], p, q, vtask)
           /\ tasks' = [tasks EXCEPT ![p] = Settle(p, t1)]
           /\ errlog' = errlog (+) SkippedLog(value, j + 1, NextSent(value, j + 1))
    /\ UNCHANGED subNext
    /\ ProducerAfter
    /\ UNCHANGED << run, today, main_pc, format, exited, exit_code,
                    ubuntu_eol, centos_eol, windows_eol, redhat_eol,
                    rx_dropped, out, call >>

(***************************************************************************)
(* main.rs: the main task.  The writers (File, BufWriter, Workbook) are    *)
(* taken to succeed; the BufWriter is flushed when write_to_csv returns.   *)
(***************************************************************************)
\* vmresult.rs: csv_header_line
CsvHeader ==
    << "Deprecated", "Version (detected)", "ID", "OS", "Subscription",
       "Publisher", "Offer", "SKU", "Version", "Exact version" >>

\* write_to_excel, lines 183-192
ExcelHeader ==
    << "Detected version", "Deprecated", "OS", "Subscription", "Offer", "SKU",
       "Version", "Version exact", "Publisher", "Resource ID" >>

\* {:?} of Option<OsType>
DebugOsType(os_type) ==
    IF os_type = None THEN <<"N","o","n","e">>
    ELSE <<"S","o","m","e","(">> \o os_type[1] \o <<")">>

\* write_to_csv, lines 264-286: the fields of the line written for vm
CsvRow(vm) ==
    LET version_info ==
            csv_version_info(vm, ubuntu_eol[1].value, centos_eol[1].value,
                             windows_eol[1].value, today)
    IN  << version_info[1], version_info[2], vm.id, DebugOsType(vm.os_type),
           vm.subscription_id, vm.publisher, vm.offer, vm.sku, vm.version,
           vm.exact_version >>

\* write_to_excel, lines 196-245: the cells of the row written for vm
ExcelRow(vm) ==
    LET version_info ==
            excel_version_info(vm, ubuntu_eol[1].value, centos_eol[1].value,
                               windows_eol[1].value, redhat_eol[1].value, today)
        os_type == IF vm.os_type # None THEN vm.os_type[1] ELSE S_dashes
    IN  << version_info[1], version_info[2], os_type, vm.subscription_id, vm.offer,
           vm.sku, vm.version, vm.exact_version, vm.publisher, vm.id >>

NoFile == [created |-> FALSE, header |-> <<>>, rows |-> <<>>, closed |-> FALSE]

\* main returns: its locals (rx, and the writer inside write_to_csv) are dropped
MainReturns(code) ==
    /\ main_pc' = "returned"
    /\ exit_code' = code
    /\ rx_dropped' = (producer # "unspawned")

\* Result<Vec<EOLEntity>, Error>
Ok(value) == [ok |-> TRUE, value |-> value]

Err == [ok |-> FALSE, value |-> <<>>]

\* what a fetch_eol call may return in the pipeline runs
FetchOutcomes(calendar) == {Err, Ok(calendar)}

\* lines 52-59
ParseArgs ==
    /\ ~exited
    /\ main_pc = "start"
    /\ format' = OutputTypeFrom(args_format)
    /\ IF format' = "UNKNOWN"
       THEN /\ errlog' = errlog (+) SetToBag({[msg |-> "Unknown output format specified",
                                               id |-> S_empty]})
            /\ MainReturns(0)
       ELSE /\ main_pc' = "tenant"
            /\ UNCHANGED << errlog, exit_code, rx_dropped >>
    /\ UNCHANGED << run, today, exited,
                    ubuntu_eol, centos_eol, windows_eol, redhat_eol,
                    chan, tx_dropped, producer, subNext, tasks, mutex, out, call >>

\* line 65: AzureCliCredential::get_tenant()?
GetTenant ==
    /\ ~exited
    /\ main_pc = "tenant"
    /\ \E ok \in BOOLEAN :
          IF ok THEN main_pc' = "spawn" /\ UNCHANGED << exit_code, rx_dropped >>
          ELSE MainReturns(1)
    /\ UNCHANGED << run, today, format, exited,
                    ubuntu_eol, centos_eol, windows_eol, redhat_eol,
                    chan, tx_dropped, producer, subNext, tasks, mutex, errlog, out,
                    call >>

\* lines 70-98 up to the first await of the sink: the channel is made, the
\* producer is spawned, write_to_csv creates the file and writes the header
Spawn ==
    /\ ~exited
    /\ main_pc = "spawn"
    /\ producer' = "running"
    /\ main_pc' = "fetch_ubuntu"
    /\ out' = IF format = "CSV"
              THEN [out EXCEPT !.created = TRUE, !.header = CsvHeader]
              ELSE out
    /\ UNCHANGED << run, today, format, exited, exit_code,
                    ubuntu_eol, centos_eol, windows_eol, redhat_eol,
                    chan, tx_dropped, rx_dropped, subNext, tasks, mutex, errlog, call >>

\* a `list().await?` of the sink fails: the error goes up through main
\* (variant: the error of a fetch is dropped and main returns Ok)
FetchFailureIgnored ==
    /\ MainReturns(0)
    /\ chan' = <<>>
    /\ out' = IF out.created THEN [out EXCEPT !.closed = TRUE] ELSE out

\* (rx goes out of scope with the sink's frame: the records still buffered
\* are dropped with it)
FetchFails ==
    /\ MainReturns(1)
    /\ chan' = <<>>
    /\ out' = IF out.created THEN [out EXCEPT !.closed = TRUE] ELSE out

FetchUbuntu ==
    /\ ~exited
    /\ main_pc = "fetch_ubuntu"
    /\ \E r \in FetchOutcomes(UbuntuCalendar) :
          /\ ubuntu_eol' = Some(r)
          /\ IF ~r.ok THEN FetchFails
             ELSE main_pc' = "fetch_centos" /\ UNCHANGED << exit_code, rx_dropped, out, chan >>
    /\ UNCHANGED << run, today, format, exited,
                    centos_eol, windows_eol, redhat_eol,
                    tx_dropped, producer, subNext, tasks, mutex, errlog, call >>

FetchCentos ==
    /\ ~exited
    /\ main_pc = "fetch_centos"
    /\ \E r \in FetchOutcomes(CentosCalendar) :
          /\ centos_eol' = Some(r)
          /\ IF ~r.ok THEN FetchFails
             ELSE main_pc' = "fetch_windows" /\ UNCHANGED << exit_code, rx_dropped, out, chan >>
    /\ UNCHANGED << run, today, format, exited,
                    ubuntu_eol, windows_eol, redhat_eol,
                    tx_dropped, producer, subNext, tasks, mutex, errlog, call >>

\* write_to_csv goes on to its loop, write_to_excel to the redhat calendar
FetchWindows ==
    /\ ~exited
    /\ main_pc = "fetch_windows"
    /\ \E r \in FetchOutcomes(WindowsCalendar) :
          /\ windows_eol' = Some(r)
          /\ IF ~r.ok THEN FetchFails
             ELSE /\ main_pc' = IF format = "CSV" THEN "recv" ELSE "fetch_redhat"
                  /\ UNCHANGED << exit_code, rx_dropped, out, chan >>
    /\ UNCHANGED << run, today, format, exited,
                    ubuntu_eol, centos_eol, redhat_eol,
                    tx_dropped, producer, subNext, tasks, mutex, errlog, call >>

\* write_to_excel only; then the workbook is made and the header row written
FetchRedhat ==
    /\ ~exited
    /\ main_pc = "fetch_redhat"
    /\ \E r \in FetchOutcomes(RedhatCalendar) :
          /\ redhat_eol' = Some(r)
          /\ IF ~r.ok THEN FetchFails
             ELSE /\ main_pc' = "recv"
                  /\ out' = [out EXCEPT !.created = TRUE, !.header = ExcelHeader]
                  /\ UNCHANGED << exit_code, rx_dropped, chan >>
    /\ UNCHANGED << run, today, format, exited,
                    ubuntu_eol, centos_eol, windows_eol,
                    tx_dropped, producer, subNext, tasks, mutex, errlog, call >>

\* `while let Some(vm) = rx.recv().await`: a record is taken and its row written
RecvSome ==
    /\ ~exited
    /\ main_pc = "recv"
    /\ chan # <<>>
    /\ chan' = Tail(chan)
    /\ out' = [out EXCEPT !.rows = Append(@, IF format = "CSV" THEN CsvRow(Head(chan))
                                             ELSE ExcelRow(Head(chan)))]
    /\ UNCHANGED << run, today, main_pc, format, exited, exit_code,
                    ubuntu_eol, centos_eol, windows_eol, redhat_eol,
                    tx_dropped, rx_dropped, producer, subNext, tasks, mutex, errlog,
                    call >>

\* rx.recv() returns None: the channel is empty and the sender dropped; the
\* sink closes its output and main returns Ok
RecvNone ==
    /\ ~exited
    /\ main_pc = "recv"
    /\ chan = <<>>
    /\ tx_dropped
    /\ out' = [out EXCEPT !.closed = TRUE]
    /\ MainReturns(0)
    /\ UNCHANGED << run, today, format, exited,
                    ubuntu_eol, centos_eol, windows_eol, redhat_eol,
                    chan, tx_dropped, producer, subNext, tasks, mutex, errlog, call >>

\* the runtime is shut down after main has returned; the process ends
Exit ==
    /\ ~exited
    /\ main_pc = "returned"
    /\ exited' = TRUE
    /\ UNCHANGED << run, today, main_pc, format, exit_code,
                    ubuntu_eol, centos_eol, windows_eol, redhat_eol,
                    chan, tx_dropped, rx_dropped, producer, subNext, tasks, mutex,
                    errlog, out, call >>

NoCall == [fn |-> "none"]

Init ==
    /\ run \in 1..Len(Runs)
    /\ today = Today
    /\ main_pc = "start"
    /\ format = "UNPARSED"
    /\ exited = FALSE
    /\ exit_code = 0
    /\ ubuntu_eol = None
    /\ centos_eol = None
    /\ windows_eol = None
    /\ redhat_eol = None
    /\ chan = <<>>
    /\ tx_dropped = FALSE
    /\ rx_dropped = FALSE
    /\ producer = "unspawned"
    /\ subNext = 1
    /\ tasks = [p \in 1..Len(tenant.subs) |-> IdleTask]
    /\ mutex = FreeMutex
    /\ errlog = EmptyBag
    /\ out = NoFile
    /\ call = NoCall

Next ==
    \/ ParseArgs
    \/ GetTenant
    \/ Spawn
    \/ SubStreamNext
    \/ \E p \in 1..Len(tasks) : VmStreamNext(p)
    \/ \E p \in 1..Len(tasks) : \E q \in 1..Len(tasks[p].vt) : Acquire(p, q)
    \/ \E p \in 1..Len(tasks) : \E q \in 1..Len(tasks[p].vt) : Send(p, q)
    \/ FetchUbuntu
    \/ FetchCentos
    \/ FetchWindows
    \/ FetchRedhat
    \/ RecvNone
    \/ Exit
    \/ RecvSome

vars == << run, today, main_pc, format, exited, exit_code,
          ubuntu_eol, centos_eol, windows_eol, redhat_eol,
          chan, tx_dropped, rx_dropped, producer, subNext, tasks, mutex,
          errlog, out, call >>

Spec == Init /\ [][Next]_vars

(***************************************************************************)
(* PureSpec: one call of a parser, of a classifier or of the dispatch of a *)
(* sink, on inputs drawn from bounded sets.  The pipeline stands still.    *)
(***************************************************************************)
MaxSkuLen == 4

MaxCalLen == 2

SkuAlphabet == {"7", "6", ".", "-", "_"}

\* every SKU over the alphabet up to MaxSkuLen characters, and the documented ones
Skus ==
    UNION { [1..n -> SkuAlphabet] : n \in 0..MaxSkuLen }
    \cup { S_18_04_LTS, S_20_04_gen2, S_7_LVM, S_7_6, S_8_2, S_2019,
           <<"7",".","6",".","3",".","4">> }

ClassifySkus ==
    { S_empty, S_7_6, S_7_LVM, S_20_04_gen2, S_8_2, <<"2","0",".","0","4">>,
      <<"L","T","S">> }

Cycles == { <<"7">>, <<"2","0",".","0","4">>, S_empty, <<"l","t","s">> }

Todays == { Date(2024, 2, 29), Date(2024, 3, 1) }

EolDates ==
    { Date(2023, 12, 31), Date(2024, 2, 29), Date(2024, 3, 1),
      Date(2025, 2, 27), Date(2025, 2, 28), Date(2025, 3, 1) }

Entities == { EOLEntity(c, d) : c \in Cycles, d \in EolDates }

Calendars == UNION { [1..n -> Entities] : n \in 0..MaxCalLen }

Offers ==
    { S_empty, S_UbuntuServer, S_CentOS, S_RHEL, S_WindowsServer,
      <<"0","0","0","1","-","c","o","m","-","u","b","u","n","t","u">>,
      <<"c","e","n","t","o","s","-","u","b","u","n","t","u">>,
      <<"r","h","e","l","-","w","i","n","d","o","w","s">>,
      <<"W","I","N","D","O","W","S","-","R","H","E","L">>,
      <<"r","h","e","l","-","c","e","n","t","o","s">>,
      <<"o","f","f","i","c","e","-","3","6","5">>,
      <<"D","e","b","i","a","n">> }

Publishers ==
    { S_empty, S_Canonical, S_OpenLogic, S_RedHat,
      <<"M","i","c","r","o","s","o","f","t","W","i","n","d","o","w","s","D","e","s","k","t","o","p">> }

DispatchSkus == { S_empty, S_7_6, S_8_2 }

\* a record as list_vms builds it, for the calls of the dispatch
VMResultOf(publisher, offer, sku) ==
    [ id |-> <<"v">>, subscription_id |-> <<"s">>, publisher |-> publisher,
      offer |-> offer, sku |-> sku, version |-> S_empty, exact_version |-> S_empty,
      os_type |-> None ]

PureInit ==
    /\ run = 1
    /\ today = Today
    /\ main_pc = "start"
    /\ format = "UNPARSED"
    /\ exited = FALSE
    /\ exit_code = 0
    /\ ubuntu_eol = None
    /\ centos_eol = None
    /\ windows_eol = None
    /\ redhat_eol = None
    /\ chan = <<>>
    /\ tx_dropped = FALSE
    /\ rx_dropped = FALSE
    /\ producer = "unspawned"
    /\ subNext = 1
    /\ tasks = [p \in 1..Len(tenant.subs) |-> IdleTask]
    /\ mutex = FreeMutex
    /\ errlog = EmptyBag
    /\ out = NoFile
    /\ call = NoCall

PipelineStill ==
    UNCHANGED << run, today, main_pc, format, exited, exit_code,
                 ubuntu_eol, centos_eol, windows_eol, redhat_eol,
                 chan, tx_dropped, rx_dropped, producer, subNext, tasks, mutex,
                 errlog, out >>

ParseCall(fn, sku, res) == [fn |-> fn, sku |-> sku, res |-> res]

CallUbuntuParse ==
    /\ call = NoCall
    /\ \E sku \in Skus :
          call' = ParseCall("ubuntu::parse_azure_version", sku,
                            ubuntu_parse_azure_version(sku))
    /\ PipelineStill

CallCentosParse ==
    /\ call = NoCall
    /\ \E sku \in Skus :
          call' = ParseCall("centos::parse_azure_version", sku,
                            centos_parse_azure_version(sku))
    /\ PipelineStill

CallRedhatParse ==
    /\ call = NoCall
    /\ \E sku \in Skus :
          call' = ParseCall("redhat::parse_azure_version", sku,
                            redhat_parse_azure_version(sku))
    /\ PipelineStill

CallWindowsParse ==
    /\ call = NoCall
    /\ \E sku \in Skus :
          call' = ParseCall("windows::parse_azure_version", sku,
                            windows_parse_azure_version(sku))
    /\ PipelineStill

ClassifyCall(fn, sku, eol_list, now, res) ==
    [fn |-> fn, sku |-> sku, eol_list |-> eol_list, now |-> now, res |-> res]

CallUbuntuIsOutdated ==
    /\ call = NoCall
    /\ \E sku \in ClassifySkus, eol_list \in Calendars, now \in Todays :
          call' = ClassifyCall("ubuntu::is_outdated", sku, eol_list, now,
                     ubuntu_is_outdated(VMResultOf(S_empty, S_empty, sku), eol_list, now))
    /\ PipelineStill

CallCentosIsOutdated ==
    /\ call = NoCall
    /\ \E sku \in ClassifySkus, eol_list \in Calendars, now \in Todays :
          call' = ClassifyCall("centos::is_outdated", sku, eol_list, now,
                     centos_is_outdated(VMResultOf(S_empty, S_empty, sku), eol_list, now))
    /\ PipelineStill

CallRedhatIsOutdated ==
    /\ call = NoCall
    /\ \E sku \in ClassifySkus, eol_list \in Calendars, now \in Todays :
          call' = ClassifyCall("redhat::is_outdated", sku, eol_list, now,
                     redhat_is_outdated(VMResultOf(S_empty, S_empty, sku), eol_list, now))
    /\ PipelineStill

CallWindowsIsOutdated ==
    /\ call = NoCall
    /\ \E sku \in ClassifySkus, eol_list \in Calendars, now \in Todays :
          call' = ClassifyCall("windows::is_outdated", sku, eol_list, now,
                     windows_is_outdated(VMResultOf(S_empty, S_empty, sku), eol_list, now))
    /\ PipelineStill

DispatchCall(fn, vm, res) == [fn |-> fn, vm |-> vm, res |-> res]

\* the dispatch of each sink, with the calendars of the pipeline runs
CallCsvVersionInfo ==
    /\ call = NoCall
    /\ \E publisher \in Publishers, offer \in Offers, sku \in DispatchSkus :
          LET vm == VMResultOf(publisher, offer, sku)
          IN  call' = DispatchCall("write_to_csv", vm,
                         csv_version_info(vm, UbuntuCalendar, CentosCalendar,
                                          WindowsCalendar, Today))
    /\ PipelineStill

CallExcelVersionInfo ==
    /\ call = NoCall
    /\ \E publisher \in Publishers, offer \in Offers, sku \in DispatchSkus :
          LET vm == VMResultOf(publisher, offer, sku)
          IN  call' = DispatchCall("write_to_excel", vm,
                         excel_version_info(vm, UbuntuCalendar, CentosCalendar,
                                            WindowsCalendar, RedhatCalendar, Today))
    /\ PipelineStill

PureNext ==
    \/ CallUbuntuParse
    \/ CallCentosParse
    \/ CallRedhatParse
    \/ CallWindowsParse
    \/ CallUbuntuIsOutdated
    \/ CallCentosIsOutdated
    \/ CallRedhatIsOutdated
    \/ CallWindowsIsOutdated
    \/ CallCsvVersionInfo
    \/ CallExcelVersionInfo

PureSpec == PureInit /\ [][PureNext]_vars

\* the scheduler runs some task that can run, and a request that is awaited
\* is answered; the pipeline has no other source of progress
FairSpec == Spec /\ WF_vars(Next)

(***************************************************************************)
(* What the properties below speak of                                      *)
(***************************************************************************)
RECURSIVE Flatten(_)
Flatten(seqs) == IF Len(seqs) = 0 THEN <<>> ELSE Head(seqs) \o Flatten(Tail(seqs))

RECURSIVE SeqBag(_)
SeqBag(s) == IF Len(s) = 0 THEN EmptyBag ELSE SetToBag({Head(s)}) (+) SeqBag(Tail(s))

\* the VM carries properties, storage profile and OS disk
HasRequired(vm) ==
    /\ vm.properties # None
    /\ vm.properties[1].storage_profile # None
    /\ vm.properties[1].storage_profile[1].os_disk # None

HasImage(vm) ==
    HasRequired(vm) /\ vm.properties[1].storage_profile[1].image_reference # None

\* the ids of the subscriptions on the pages that list successfully, in order
ListedSubs(t) ==
    Flatten([p \in 1..Len(t.subs) |->
                IF t.subs[p].ok
                THEN [i \in 1..Len(t.subs[p].value) |->
                         unwrap_or_default(t.subs[p].value[i].subscription_id)]
                ELSE <<>>])

\* the VM entries on the pages of a subscription that list successfully
EntriesOfSub(t, sub_id) ==
    LET pages == VmPagesIn(t, sub_id)
    IN  Flatten([q \in 1..Len(pages) |->
                    IF pages[q].ok
                    THEN [j \in 1..Len(pages[q].value) |->
                             [sub |-> sub_id, vm |-> pages[q].value[j]]]
                    ELSE <<>>])

Entries(t) ==
    Flatten([k \in 1..Len(ListedSubs(t)) |-> EntriesOfSub(t, ListedSubs(t)[k])])

EntryKey(e) == <<e.sub, unwrap_or_default(e.vm.id)>>

\* every page lists successfully and every VM carries the required fields
AllPagesOk(t) ==
    /\ \A p \in 1..Len(t.subs) : t.subs[p].ok
    /\ \A k \in 1..Len(ListedSubs(t)) :
          \A q \in 1..Len(VmPagesIn(t, ListedSubs(t)[k])) :
             VmPagesIn(t, ListedSubs(t)[k])[q].ok
    /\ \A k \in 1..Len(Entries(t)) : HasRequired(Entries(t)[k].vm)

EntriesByRun == [r \in 1..Len(Runs) |-> Entries(Runs[r].tenant)]

AllPagesOkByRun == [r \in 1..Len(Runs) |-> AllPagesOk(Runs[r].tenant)]

\* the (subscription, resource id) of every VM entry that should give a record
RequiredKeysByRun ==
    [r \in 1..Len(Runs) |->
        SeqBag([k \in 1..Len(EntriesByRun[r]) |-> EntryKey(EntriesByRun[r][k])])]

\* the (subscription, resource id) a written row and a buffered record carry
RowKey(row) == IF format = "CSV" THEN <<row[5], row[3]>> ELSE <<row[4], row[10]>>

RowKeys == SeqBag([k \in 1..Len(out.rows) |-> RowKey(out.rows[k])])

ChanKeys == SeqBag([k \in 1..Len(chan) |-> <<chan[k].subscription_id, chan[k].id>>])

\* the sink has drained the channel to its end and main has returned Ok
DrainedOk == main_pc = "returned" /\ exit_code = 0 /\ producer # "unspawned"

(***************************************************************************)
(* C1.  When every page lists successfully and every VM carries            *)
(* properties, storage profile and OS disk, no record is ever duplicated   *)
(* or invented (rows written plus records buffered never exceed the VMs    *)
(* listed), and once the sink has drained the channel the rows written are *)
(* exactly the N*M VMs, each once, in any order: a send that finds the     *)
(* channel full waits, it does not drop.                                   *)
(***************************************************************************)
C1_ExactlyOnce ==
    AllPagesOkByRun[run] =>
        /\ (RowKeys (+) ChanKeys) \sqsubseteq RequiredKeysByRun[run]
        /\ DrainedOk => RowKeys = RequiredKeysByRun[run]

\* N subscriptions of M VMs each, N*M above the capacity, all delivered
C1_Witness ==
    /\ tenant = GridTenant
    /\ NumSubs * VmsPerSub > Capacity
    /\ DrainedOk
    /\ Len(out.rows) = NumSubs * VmsPerSub

(***************************************************************************)
(* C2.  The sender is dropped (end of stream) only when the subscription   *)
(* stream is exhausted and every subscription page task, hence every VM    *)
(* page task, is done; and under fair scheduling, once the calendars are   *)
(* fetched the run reaches: producer finished, sender dropped, channel     *)
(* empty, drain loop ended with main returning Ok.                         *)
(***************************************************************************)
AllTasksDone ==
    /\ subNext > Len(tenant.subs)
    /\ \A p \in 1..Len(tasks) : tasks[p].pc = "done"

PipelineDone ==
    /\ producer = "finished"
    /\ tx_dropped
    /\ chan = <<>>
    /\ DrainedOk

Sending ==
    UNION {{<<p, q>> : q \in {k \in 1..Len(tasks[p].vt) : tasks[p].vt[k].pc = "send"}} :
              p \in 1..Len(tasks)}

C3_Backpressure ==
    /\ [](Len(chan) <= Capacity)
    /\ [][(Len(chan) = Capacity /\ ~rx_dropped') =>
             /\ chan' = chan \/ chan' = Tail(chan)
             /\ Sending \subseteq Sending']_vars

\* the channel is full and a producer task awaits its send
C3_Witness ==
    /\ Len(chan) = Capacity
    /\ mutex.holder # <<>>
    /\ tasks[mutex.holder[1]].vt[mutex.holder[2]].pc = "send"

(***************************************************************************)
(* C4.  At most 10 subscription page tasks are in flight, and for each     *)
(* subscription at most 10 of its VM page tasks.                           *)
(***************************************************************************)
SubPagesInFlight == {p \in 1..Len(tasks) : tasks[p].pc = "run"}

VmPagesInFlight(p) ==
    {q \in 1..Len(tasks[p].vt) : tasks[p].vt[q].pc \in {"lock", "send"}}

C4_ConcurrencyCap ==
    /\ Cardinality(SubPagesInFlight) <= 10
    /\ \A p \in 1..Len(tasks) : Cardinality(VmPagesInFlight(p)) <= 10

\* ten subscription page tasks in flight while the stream has a page left
C4_Witness ==
    /\ Cardinality(SubPagesInFlight) = 10
    /\ subNext <= Len(tenant.subs)

(***************************************************************************)
(* C5.  A page of subscriptions or of VMs that fails to list is logged and *)
(* only that page is skipped: once the sink has drained the channel, every *)
(* failed page read has left a diagnostic in the log, the rows written are *)
(* the records of all the pages that listed successfully, and the sender   *)
(* was dropped (the channel closed).                                       *)
(***************************************************************************)
\* the pages of the tenant that fail to list: subscription pages, and VM pages
\* of the subscriptions that are listed
FailedPages(t) ==
    Cardinality({p \in 1..Len(t.subs) : ~t.subs[p].ok})
    + Len(Flatten([k \in 1..Len(ListedSubs(t)) |->
             SelectSeq(VmPagesIn(t, ListedSubs(t)[k]), LAMBDA page : ~page.ok)]))

FailedPagesByRun == [r \in 1..Len(Runs) |-> FailedPages(Runs[r].tenant)]

\* the keys of the VM entries on successfully listed pages that carry
\* properties, storage profile and OS disk
EmittedKeysByRun ==
    [r \in 1..Len(Runs) |->
        SeqBag([k \in 1..Len(SelectSeq(EntriesByRun[r], LAMBDA e : HasRequired(e.vm))) |->
                   EntryKey(SelectSeq(EntriesByRun[r], LAMBDA e : HasRequired(e.vm))[k])])]

\* the log entries that are neither the diagnostic of a skipped VM entry nor
\* the unknown-format message
PageDiagnostics ==
    {d \in BagToSet(errlog) :
        d.msg \notin {S_NoProperties, S_NoStorageProfile, S_NoOsDisk,
                      "Unknown output format specified"}}

C5_FailedPageLoggedAndSkipped ==
    DrainedOk =>
        /\ RowKeys = EmittedKeysByRun[run]
        /\ tx_dropped
        /\ FailedPagesByRun[run] > 0 => PageDiagnostics # {}

\* what does hold: the failed pages are skipped without a diagnostic
C5_FailedPageSkippedSilently ==
    /\ PageDiagnostics = {}
    /\ DrainedOk => RowKeys = EmittedKeysByRun[run] /\ tx_dropped

(***************************************************************************)
(* C6.  Of the VM entries of the pages that list successfully, those that  *)
(* lack properties, storage profile or OS disk give no row and the others  *)
(* of the page exactly one each; the row of an entry that lacks only the   *)
(* image reference has empty sku, publisher, offer, version and exact      *)
(* version, an empty detected version and the status "--".                 *)
(***************************************************************************)
\* the cells of a row, by the column they are written to
RowCells(row) ==
    IF format = "CSV"
    THEN [detected |-> row[1], status |-> row[2], publisher |-> row[6],
          offer |-> row[7], sku |-> row[8], version |-> row[9], exact_version |-> row[10]]
    ELSE [detected |-> row[1], status |-> row[2], publisher |-> row[9],
          offer |-> row[5], sku |-> row[6], version |-> row[7], exact_version |-> row[8]]

\* the entries with the required fields and without image reference
ImagelessKeysByRun ==
    [r \in 1..Len(Runs) |->
        {EntryKey(EntriesByRun[r][k]) :
            k \in {i \in 1..Len(EntriesByRun[r]) :
                      /\ HasRequired(EntriesByRun[r][i].vm)
                      /\ ~HasImage(EntriesByRun[r][i].vm)}}]

WithImageKeysByRun ==
    [r \in 1..Len(Runs) |->
        {EntryKey(EntriesByRun[r][k]) :
            k \in {i \in 1..Len(EntriesByRun[r]) : HasImage(EntriesByRun[r][i].vm)}}]

\* row k is the row of an entry without image reference
ImagelessRow(k) ==
    /\ RowKey(out.rows[k]) \in ImagelessKeysByRun[run]
    /\ RowKey(out.rows[k]) \notin WithImageKeysByRun[run]

C6_MissingFields ==
    /\ DrainedOk => RowKeys = EmittedKeysByRun[run]
    /\ \A k \in 1..Len(out.rows) :
          ImagelessRow(k) =>
             RowCells(out.rows[k]) =
                [detected |-> S_empty, status |-> S_dashes, publisher |-> S_empty,
                 offer |-> S_empty, sku |-> S_empty, version |-> S_empty,
                 exact_version |-> S_empty]

\* a drained run over pages with entries of every kind: some entry gave no
\* row, an entry after a skipped one of the same page gave its row, and an
\* entry without image reference gave a row
C6_Witness ==
    /\ tenant = MixedTenant
    /\ DrainedOk
    /\ Len(out.rows) < Len(EntriesByRun[run])
    /\ \E k \in 1..Len(out.rows) : RowKey(out.rows[k]) = <<SubId(1), VmId(1, 5)>>
    /\ \E k \in 1..Len(out.rows) : ImagelessRow(k)

(***************************************************************************)
(* C7.  When the fetch of a calendar has failed, main has returned with a  *)
(* non-zero exit status, no row was written, and what the sink had written *)
(* before (the CSV file and its header line) is still in place.            *)
(***************************************************************************)
FetchFailed ==
    \E fetched \in {ubuntu_eol, centos_eol, windows_eol, redhat_eol} :
        fetched # None /\ ~fetched[1].ok

C7_FetchFailureAborts ==
    FetchFailed =>
        /\ main_pc = "returned"
        /\ exit_code # 0
        /\ out.rows = <<>>
        /\ format = "CSV" => out.created /\ out.header = CsvHeader

\* the third calendar of a CSV run failed after the earlier ones were
\* fetched, while records were waiting in the channel's producer
C7_Witness ==
    /\ format = "CSV"
    /\ windows_eol = Some(Err)
    /\ exited
    /\ out.created
    /\ \E p \in 1..Len(tasks) : tasks[p].pc # "idle"

(***************************************************************************)
(* C8.  The pair (detected version, status) that a sink computes for a     *)
(* record is that of the family found by case-insensitive substring match  *)
(* on publisher and offer in the order ubuntu, centos, rhel, windows, and  *)
(* ("", "--") when none matches; so a record that matches both "rhel" and  *)
(* "windows" gets the RHEL pair.                                           *)
(***************************************************************************)
Mentions(vm, word) ==
    \/ contains(to_lowercase(vm.publisher), word)
    \/ contains(to_lowercase(vm.offer), word)

FamilyByPriority(vm) ==
    IF Mentions(vm, S_ubuntu) THEN "Ubuntu"
    ELSE IF Mentions(vm, S_centos) THEN "CentOS"
    ELSE IF Mentions(vm, S_rhel) THEN "RHEL"
    ELSE IF Mentions(vm, S_windows) THEN "Windows"
    ELSE "Unknown"

\* the pair of each family, with the calendars and the day of the dispatch calls
FamilyInfo(family, vm) ==
    CASE family = "Ubuntu" ->
            << unwrap_or_default(ubuntu_parse_azure_version(vm.sku)),
               ubuntu_is_outdated(vm, UbuntuCalendar, Today) >>
      [] family = "CentOS" ->
            << unwrap_or_default(centos_parse_azure_version(vm.sku)),
               centos_is_outdated(vm, CentosCalendar, Today) >>
      [] family = "RHEL" ->
            << unwrap_or_default(redhat_parse_azure_version(vm.sku)),
               redhat_is_outdated(vm, RedhatCalendar, Today) >>
      [] family = "Windows" ->
            << unwrap_or_default(windows_parse_azure_version(vm.sku)),
               windows_is_outdated(vm, WindowsCalendar, Today) >>
      [] OTHER -> << S_empty, S_dashes >>

C8_FamilyByPriority ==
    call.fn \in {"write_to_csv", "write_to_excel"} =>
        call.res = FamilyInfo(FamilyByPriority(call.vm), call.vm)

(***************************************************************************)
(* C9.  The parser of Ubuntu, of CentOS and of RHEL returns None for the   *)
(* empty SKU.                                                              *)
(***************************************************************************)
C9_EmptySkuParsesToNone ==
    ( /\ call.fn \in {"ubuntu::parse_azure_version", "centos::parse_azure_version",
                       "redhat::parse_azure_version"}
      /\ call.sku = S_empty )
    => call.res = None

(***************************************************************************)
(* C10.  CentOS and RHEL: when the calendar has an entry whose cycle is    *)
(* the parsed version, the first such entry decides: end of life before    *)
(* today gives "EOL"; after today and before today + 12 months gives       *)
(* "Ending " followed by that date; after today and not before today + 12  *)
(* months gives "Supported".                                               *)
(***************************************************************************)
\* the same day twelve months later (the 28th for a 29th of February)
TwelveMonthsAfter(date) ==
    IF date.m = 2 /\ date.d = 29 THEN Date(date.y + 1, 2, 28)
    ELSE Date(date.y + 1, date.m, date.d)

\* the version the family's parser finds in the SKU of the call
ParsedVersionOfCall ==
    IF call.fn = "centos::is_outdated" THEN centos_parse_azure_version(call.sku)
    ELSE redhat_parse_azure_version(call.sku)

\* the calendar entries of the call whose cycle is the parsed version
MatchingEntries ==
    {i \in 1..Len(call.eol_list) : call.eol_list[i].cycle = ParsedVersionOfCall[1]}

FirstMatchingEol ==
    call.eol_list[CHOOSE i \in MatchingEntries : \A k \in MatchingEntries : i <= k].eol

C10_CentosRhelBoundaries ==
    ( /\ call.fn \in {"centos::is_outdated", "redhat::is_outdated"}
      /\ ParsedVersionOfCall # None
      /\ MatchingEntries # {} )
    => /\ DateLT(FirstMatchingEol, call.now) => call.res = S_EOL
       /\ ( /\ DateGT(FirstMatchingEol, call.now)
            /\ DateLT(FirstMatchingEol, TwelveMonthsAfter(call.now)) )
          => call.res = S_Ending \o FormatDate(FirstMatchingEol)
       /\ ( /\ DateGT(FirstMatchingEol, call.now)
            /\ ~DateLT(FirstMatchingEol, TwelveMonthsAfter(call.now)) )
          => call.res = S_Supported

\* today is a 29th of February and the end of life of the cycle of the SKU
\* falls one day before today + 12 months
C10_Witness ==
    /\ call.fn = "redhat::is_outdated"
    /\ call.now = Date(2024, 2, 29)
    /\ call.sku = S_7_6
    /\ call.res = S_Ending \o FormatDate(Date(2025, 2, 27))

(***************************************************************************)
(* The calls of is_outdated of the three families: the version the         *)
(* family's parser finds in the SKU of the call, the calendar entries of   *)
(* that cycle, and the first of them                                       *)
(***************************************************************************)
IsOutdatedCalls == {"ubuntu::is_outdated", "centos::is_outdated", "redhat::is_outdated"}

CallVersion ==
    IF call.fn = "ubuntu::is_outdated" THEN ubuntu_parse_azure_version(call.sku)
    ELSE IF call.fn = "centos::is_outdated" THEN centos_parse_azure_version(call.sku)
    ELSE redhat_parse_azure_version(call.sku)

CallMatches ==
    {i \in 1..Len(call.eol_list) :
        CallVersion # None /\ call.eol_list[i].cycle = CallVersion[1]}

CallFirstMatch == call.eol_list[CHOOSE i \in CallMatches : \A k \in CallMatches : i <= k]

(***************************************************************************)
(* C11.  Ubuntu: when the first calendar entry of the parsed version has   *)
(* its end of life after today and before today + 12 months, the status is *)
(* "Ending " followed by that date, as for CentOS and RHEL.                *)
(***************************************************************************)
C11_UbuntuLookahead ==
    ( /\ call.fn = "ubuntu::is_outdated"
      /\ CallMatches # {}
      /\ DateGT(CallFirstMatch.eol, call.now)
      /\ DateLT(CallFirstMatch.eol, TwelveMonthsAfter(call.now)) )
    => call.res = S_Ending \o FormatDate(CallFirstMatch.eol)

(***************************************************************************)
(* C12.  Ubuntu, CentOS, RHEL: when no entry of the calendar (empty or     *)
(* not) has a cycle equal, character for character, to the version parsed  *)
(* from the SKU, the status is "--", whatever the other entries are.       *)
(***************************************************************************)
C12_NoMatchIsUnknown ==
    (call.fn \in IsOutdatedCalls /\ CallMatches = {}) => call.res = S_dashes

\* the calendar has entries, one of them of the parsed version in another
\* case and past its end of life, and none of the parsed version itself
C12_Witness ==
    /\ call.fn = "ubuntu::is_outdated"
    /\ call.sku = <<"L","T","S">>
    /\ Len(call.eol_list) = MaxCalLen
    /\ call.eol_list[1] = EOLEntity(<<"l","t","s">>, Date(2023, 12, 31))
    /\ CallMatches = {}
    /\ call.res = S_dashes

(***************************************************************************)
(* C13.  The Ubuntu parser returns the part of the SKU before its first    *)
(* '-' (the whole SKU when it has none), with its '_' replaced by '.' when *)
(* that part has exactly one '_', and unchanged otherwise: "18.04-LTS"     *)
(* gives "18.04", "20_04-lts-gen2" gives "20.04".                          *)
(***************************************************************************)
\* the text of s before the first c, all of s when c does not occur
Before(s, c) ==
    IF \A i \in 1..Len(s) : s[i] # c THEN s
    ELSE SubSeq(s, 1, (CHOOSE i \in 1..Len(s) :
                          s[i] = c /\ \A j \in 1..(i - 1) : s[j] # c) - 1)

Occurrences(s, c) == Cardinality({i \in 1..Len(s) : s[i] = c})

Replaced(s, c, d) == [i \in 1..Len(s) |-> IF s[i] = c THEN d ELSE s[i]]

C13_UbuntuParser ==
    call.fn = "ubuntu::parse_azure_version" =>
        /\ call.res = Some(IF Occurrences(Before(call.sku, "-"), "_") = 1
                           THEN Replaced(Before(call.sku, "-"), "_", ".")
                           ELSE Before(call.sku, "-"))
        /\ call.sku = S_18_04_LTS => call.res = Some(<<"1","8",".","0","4">>)
        /\ call.sku = S_20_04_gen2 => call.res = Some(<<"2","0",".","0","4">>)

C13_Witness ==
    /\ call.fn = "ubuntu::parse_azure_version"
    /\ call.sku = S_20_04_gen2
    /\ call.res = Some(<<"2","0",".","0","4">>)

(***************************************************************************)
(* C14.  The CentOS parser and the RHEL parser return the same for every   *)
(* SKU: the text before the first '.' when the SKU has a '.', else the     *)
(* text before the first '-' (the whole SKU when it has none).  "7-LVM",   *)
(* "7.6" and "7.6.3.4" all give "7".                                       *)
(***************************************************************************)
C14_CentosRhelParser ==
    call.fn \in {"centos::parse_azure_version", "redhat::parse_azure_version"} =>
        /\ call.res = Some(IF Occurrences(call.sku, ".") >= 1
                           THEN Before(call.sku, ".")
                           ELSE Before(call.sku, "-"))
        /\ call.res = centos_parse_azure_version(call.sku)
        /\ call.res = redhat_parse_azure_version(call.sku)
        /\ call.sku \in {S_7_LVM, S_7_6, <<"7",".","6",".","3",".","4">>}
              => call.res = Some(<<"7">>)

C14_Witness ==
    /\ call.fn = "redhat::parse_azure_version"
    /\ call.sku = <<"7",".","6",".","3",".","4">>
    /\ call.res = Some(<<"7">>)

(***************************************************************************)
(* C15.  A --format value that is neither "excel" nor "csv", compared      *)
(* without regard to case, makes the program report an error and return    *)
(* with status 0 before any other step: the producer is never spawned, no  *)
(* subscription page is polled, no calendar is fetched, nothing is sent    *)
(* and no output file is created or written.                               *)
(***************************************************************************)
C15_UnknownFormatExitsFirst ==
    /\ format # "UNPARSED" =>
          (format = "UNKNOWN" <=> to_lowercase(args_format) \notin {S_excel, S_csv})
    /\ format = "UNKNOWN" =>
          /\ main_pc = "returned"
          /\ exit_code = 0
          /\ BagIn([msg |-> "Unknown output format specified", id |-> S_empty], errlog)
          /\ producer = "unspawned"
          /\ subNext = 1
          /\ \A p \in 1..Len(tasks) : tasks[p] = IdleTask
          /\ chan = <<>>
          /\ ubuntu_eol = None /\ centos_eol = None
          /\ windows_eol = None /\ redhat_eol = None
          /\ out = NoFile

C15_Witness ==
    /\ args_format = S_xml
    /\ format = "UNKNOWN"
    /\ exited
    /\ exit_code = 0
    /\ out = NoFile

(***************************************************************************)
(* C16.  Every record on the channel has a non-empty resource id and a     *)
(* non-empty subscription id, whatever the cloud listing returned          *)
(* (subscriptions and VMs whose id field is absent included).              *)
(***************************************************************************)
C16_RecordIdsNonEmpty ==
    \A k \in 1..Len(chan) :
        /\ chan[k].id # S_empty
        /\ chan[k].subscription_id # S_empty

\* the classification the call's family gives over the calendar eol_list
CallClassify(eol_list) ==
    LET vm == VMResultOf(S_empty, S_empty, call.sku)
    IN  IF call.fn = "ubuntu::is_outdated" THEN ubuntu_is_outdated(vm, eol_list, call.now)
        ELSE IF call.fn = "centos::is_outdated"
             THEN centos_is_outdated(vm, eol_list, call.now)
        ELSE redhat_is_outdated(vm, eol_list, call.now)

(***************************************************************************)
(* C17.  When several entries of the calendar have the cycle of the parsed *)
(* version, the first of them in calendar order decides alone: the result  *)
(* is the one of a calendar holding that entry only, also when its end of  *)
(* life is today.                                                          *)
(***************************************************************************)
C17_FirstMatchDecides ==
    (call.fn \in IsOutdatedCalls /\ CallMatches # {})
        => call.res = CallClassify(<< CallFirstMatch >>)

(***************************************************************************)
(* C18.  When the only calendar entry with the cycle of the parsed version *)
(* has an end of life equal to today, the classification is "--": it is    *)
(* not "EOL", not "Ending <date>" and not "Supported".                     *)
(***************************************************************************)
C18_EolTodayIsUnknown ==
    (/\ call.fn \in IsOutdatedCalls
     /\ Cardinality(CallMatches) = 1
     /\ CallFirstMatch.eol = call.now)
        => call.res = S_dashes

C18_Witness ==
    /\ call.fn = "centos::is_outdated"
    /\ call.sku = S_7_6
    /\ call.now = Date(2024, 2, 29)
    /\ call.eol_list = << EOLEntity(<<"2","0",".","0","4">>, Date(2023, 12, 31)),
                          EOLEntity(<<"7">>, Date(2024, 2, 29)) >>
    /\ call.res = S_dashes

(***************************************************************************)
(* C19.  For every record and the same calendars the CSV sink computes the *)
(* (detected version, status) pair the spreadsheet sink computes: the      *)
(* family dispatch does not depend on the output format, and a record      *)
(* whose offer contains "rhel" is parsed and classified by the RHEL pair   *)
(* against the redhat calendar in both.                                    *)
(***************************************************************************)
C19_SinksAgree ==
    call.fn = "write_to_csv" =>
        call.res = excel_version_info(call.vm, UbuntuCalendar, CentosCalendar,
                                      WindowsCalendar, RedhatCalendar, Today)

\* the position of the column called name in the CSV header
ColumnOf(name) == CHOOSE i \in 1..Len(CsvHeader) : CsvHeader[i] = name

\* the (detected version, status) pair of the record a CSV row was written from,
\* the record being read back from the row by the header's column names
RowVersionInfo(row) ==
    csv_version_info(VMResultOf(row[ColumnOf("Publisher")], row[ColumnOf("Offer")],
                                row[ColumnOf("SKU")]),
                     ubuntu_eol[1].value, centos_eol[1].value, windows_eol[1].value,
                     today)

(***************************************************************************)
(* C20.  Every CSV data row has as many fields as the header row, and the  *)
(* field at each position carries the value the header names there: the    *)
(* status under "Deprecated", the detected version under                   *)
(* "Version (detected)".                                                   *)
(***************************************************************************)
C20_RowsFollowHeader ==
    format = "CSV" =>
        \A k \in 1..Len(out.rows) :
            /\ Len(out.rows[k]) = Len(out.header)
            /\ out.rows[k][ColumnOf("Deprecated")] = RowVersionInfo(out.rows[k])[2]
            /\ out.rows[k][ColumnOf("Version (detected)")] = RowVersionInfo(out.rows[k])[1]

=============================================================================
